---- MODULE Spec2Model ----
(***************************************************************************)
(* HebbianConvSynapse (ngclearn/components/synapses/convolution):          *)
(* a convolutional synaptic cable with a local (Hebbian) update rule.      *)
(*                                                                         *)
(* Tensors are square, single channel, batch size 1: a tensor is a record  *)
(* [n |-> side, e |-> entries in row-major order]; a Python scalar is a    *)
(* record with n = 0 and one entry.                                        *)
(***************************************************************************)
EXTENDS Integers, Sequences, FiniteSets, TLC

\* ------------------------------------------------------------------------
\* Bounds and construction-time inputs
\* ------------------------------------------------------------------------
MaxVal == 1                 \* the clamped post trace has entries in 0..MaxVal

x_size == 3                 \* side of the (square) input
k_size == 2                 \* side of the (square) kernel

Strides == {1, 2}
Paddings == {"SAME", "VALID", "None"}
SignValues == {-1, 1}
Decays == {0, 1}
WBounds == {1}
Etas == {1}
BiasInits == {"None", "constant"}
FilterInits == {<<-1, 2, 0, 1>>}    \* initial kernels (entries, row-major)

\* ------------------------------------------------------------------------
\* Tensor arithmetic (jax.numpy)
\* ------------------------------------------------------------------------
Const(n, v) == [n |-> n, e |-> [m \in 1..(n * n) |-> v]]

Zeros(n) == Const(n, 0)

Scalar(v) == [n |-> 0, e |-> <<v>>]

\* t * c
Scale(t, c) == [n |-> t.n, e |-> [m \in 1..Len(t.e) |-> t.e[m] * c]]

\* a - b, element-wise, equal shapes
Minus(a, b) == [n |-> a.n, e |-> [m \in 1..Len(a.e) |-> a.e[m] - b.e[m]]]

\* element (i, j) of t, zero outside of the tensor (zero padding)
At(t, i, j) ==
    IF i \in 1..t.n /\ j \in 1..t.n THEN t.e[(i - 1) * t.n + j] ELSE 0

RECURSIVE SeqSum(_)
SeqSum(s) == IF Len(s) = 0 THEN 0 ELSE Head(s) + SeqSum(Tail(s))

IsZero(t) == \A m \in 1..Len(t.e) : t.e[m] = 0

Max(a, b) == IF a > b THEN a ELSE b

\* ------------------------------------------------------------------------
\* Convolution arithmetic primitives (ngcconv) and optimizer (utils.optim)
\* ------------------------------------------------------------------------
\* spatial side of the forward transform's output
OutSize(pad, s) ==
    IF pad = "SAME" THEN (x_size + s - 1) \div s
    ELSE ((x_size - k_size) \div s) + 1

\* total forward padding of one spatial axis
PadTotal(pad, s) ==
    IF pad = "SAME" THEN Max((OutSize(pad, s) - 1) * s + k_size - x_size, 0)
    ELSE 0

\* pad_args of the base cable: (before, after) padding of a spatial axis
PadArgs(pad, s) ==
    [defined |-> pad \in {"SAME", "VALID"},
     lo |-> PadTotal(pad, s) \div 2,
     hi |-> PadTotal(pad, s) - (PadTotal(pad, s) \div 2)]

\* side of conv2d(_x, K): the forward transform of an input of side n
conv2d_size(n, s, pad) ==
    IF pad = "SAME" THEN (n + s - 1) \div s ELSE ((n - k_size) \div s) + 1

\* side of the uncorrected kernel gradient for an input of side n and an
\* error signal of side d
dK_size(n, d, s, pa) == n + pa.lo + pa.hi - (d - 1) * s

\* side of the uncorrected input gradient for an error signal of side d
dX_size(d, s, pa) == (d - 1) * s + k_size - (pa.lo + pa.hi)

\* _conv_same_transpose_padding(inputs, output, kernel, stride)
_conv_same_transpose_padding(d, out, k, s) ==
    LET total == Max((d - 1) * s + k - out, 0)
    IN  [defined |-> TRUE, lo |-> total \div 2, hi |-> total - (total \div 2)]

\* _conv_valid_transpose_padding(inputs, output, kernel, stride)
_conv_valid_transpose_padding(d, out, k, s) ==
    [defined |-> TRUE, lo |-> 0, hi |-> 0]

\* the anti-padding value None
NoPad == [defined |-> FALSE, lo |-> 0, hi |-> 0]

\* calc_dK_conv(pre, post, delta_shape, stride_size, padding): the
\* correlation of pre with post over the positions of post, trimmed by
\* delta_shape
calc_dK_conv(x, d, delta, s, pa) ==
    LET n == dK_size(x.n, d.n, s, pa) - delta[1]
        term(a, b, m) ==
            At(x, (((m - 1) \div d.n) * s) + a - pa.lo,
                  (((m - 1) % d.n) * s) + b - pa.lo) * d.e[m]
    IN  [n |-> n,
         e |-> [c \in 1..(n * n) |->
                  SeqSum([m \in 1..(d.n * d.n) |->
                            term(((c - 1) \div n) + 1, ((c - 1) % n) + 1, m)])]]

\* calc_dX_conv(K, post, delta_shape, stride_size, anti_padding): the
\* transposed convolution of post with K, padded by -delta_shape
calc_dX_conv(K, d, delta, s, ap) ==
    LET n == dX_size(d.n, s, ap) - delta[1]
        term(p, q, m) ==
            d.e[m] * At(K, p + ap.lo - (((m - 1) \div d.n) * s),
                           q + ap.lo - (((m - 1) % d.n) * s))
    IN  [n |-> n,
         e |-> [c \in 1..(n * n) |->
                  SeqSum([m \in 1..(d.n * d.n) |->
                            term(((c - 1) \div n) + 1, ((c - 1) % n) + 1, m)])]]

\* the primitives reject tensors whose sides do not fit the configuration
FitsKernelGradient(x, d, s, pa) ==
    x.n = x_size /\ d.n = ((x_size + pa.lo + pa.hi - k_size) \div s) + 1

FitsInputGradient(d, s, pad) == d.n = OutSize(pad, s)

\* get_opt_init_fn("sgd")(params): the state is seeded from the parameters
opt_init(params) ==
    [time_step |-> 0, slots |-> [i \in 1..Len(params) |-> Scale(params[i], 0)]]

\* get_opt_step_fn("sgd", eta)(opt_params, params, updates)
opt(lr, state, params, updates) ==
    [opt_params |-> [state EXCEPT !.time_step = @ + 1],
     params |-> [i \in 1..Len(params) |-> Minus(params[i], Scale(updates[i], lr))]]

\* ------------------------------------------------------------------------
\* HebbianConvSynapse
\* ------------------------------------------------------------------------
VARIABLES
    eta, w_bounds, w_decay, is_nonnegative, sign_value, bias_init,
    stride, padding,                 \* hyperparameters, fixed at construction
    delta_shape, x_delta_shape,      \* shape-correction caches
    weights, biases, opt_params,     \* learned parameters, optimizer state
    inputs, outputs, pre, post,      \* externally clamped compartments
    dWeights, dBiases, dInputs,      \* compartments written by the rules
    probes,                          \* number of runs of the calibration probe
    last_op,                         \* the last public operation invoked
    raised                           \* the error it raised, "none" otherwise

hyper == <<eta, w_bounds, w_decay, is_nonnegative, sign_value, bias_init,
           stride, padding>>

caches == <<delta_shape, x_delta_shape, probes>>

params == <<weights, biases, opt_params>>

vars == <<hyper, caches, params, inputs, outputs, pre, post,
          dWeights, dBiases, dInputs, last_op, raised>>

in_shape == x_size

out_shape == OutSize(padding, stride)

\* _init: the calibration probe, a dry run on zero tensors
_init(xs, s, pad, pa, K) ==
    LET _x == Zeros(xs)
        _d == Zeros(conv2d_size(_x.n, s, pad))
        dx == dK_size(_x.n, _d.n, s, pa) - K.n
        _dx == dX_size(_d.n, s, pa) - _x.n
    IN  [delta_shape |-> <<dx, dx>>, x_delta_shape |-> <<_dx, _dx>>]

\* ConvSynapse.__init__: the base cable stores stride and padding, draws the
\* kernel, allocates a bias only when bias_init is given, and zeroes inputs
\* and outputs
ConvSynapseInit ==
    /\ bias_init \in BiasInits
    /\ stride \in Strides
    /\ padding \in Paddings
    /\ \E f \in FilterInits : weights = [n |-> k_size, e |-> f]
    /\ biases = IF bias_init = "None" THEN Scalar(0) ELSE Const(1, 1)
    /\ inputs = Zeros(in_shape)
    /\ outputs = Zeros(out_shape)

\* __init__
Init ==
    /\ ConvSynapseInit
    /\ eta \in Etas
    /\ w_bounds \in WBounds
    /\ w_decay \in Decays
    /\ is_nonnegative \in BOOLEAN
    /\ sign_value \in SignValues
    /\ dWeights = Scale(weights, 0)
    /\ dInputs = Zeros(in_shape)
    /\ dBiases = Scale(biases, 0)
    /\ pre = Zeros(in_shape)
    /\ post = Zeros(out_shape)
    /\ LET c == _init(x_size, stride, padding, PadArgs(padding, stride), weights)
       IN  /\ delta_shape = c.delta_shape
           /\ x_delta_shape = c.x_delta_shape
    /\ probes = 1
    /\ opt_params = opt_init(IF bias_init # "None" THEN <<weights, biases>>
                             ELSE <<weights>>)
    /\ last_op = "init"
    /\ raised = "none"

\* _evolve without the multiplication of the kernel update by sign_value
_evolve_unsigned(sv, wd, wb, nonneg, b_init, s, pa, delta, x, d, K, b, op) ==
    IF ~FitsKernelGradient(x, d, s, pa)
    THEN [raised |-> "ShapeMismatch"]
    ELSE LET dW0 == calc_dK_conv(x, d, delta, s, pa)
             dW == IF wd > 0 THEN Minus(dW0, Scale(K, wd)) ELSE dW0
             dB == IF b_init # "None" THEN Scale(d, sv) ELSE Scalar(0)
         IN  [raised |-> "none", opt_params |-> op, weights |-> K,
              biases |-> b, dWeights |-> dW, dBiases |-> dB]

\* _evolve computing the bias update whether or not a bias is configured
_evolve_always_bias(sv, wd, wb, nonneg, b_init, s, pa, delta, x, d, K, b, op) ==
    IF ~FitsKernelGradient(x, d, s, pa)
    THEN [raised |-> "ShapeMismatch"]
    ELSE LET dW0 == Scale(calc_dK_conv(x, d, delta, s, pa), sv)
             dW == IF wd > 0 THEN Minus(dW0, Scale(K, wd)) ELSE dW0
             dB == Scale(d, sv)
         IN  [raised |-> "none", opt_params |-> op, weights |-> K,
              biases |-> b, dWeights |-> dW, dBiases |-> dB]

\* _evolve projecting the kernel it returns onto [-w_bounds, w_bounds]
_evolve_clipping(sv, wd, wb, nonneg, b_init, s, pa, delta, x, d, K, b, op) ==
    IF ~FitsKernelGradient(x, d, s, pa)
    THEN [raised |-> "ShapeMismatch"]
    ELSE LET dW0 == Scale(calc_dK_conv(x, d, delta, s, pa), sv)
             dW == IF wd > 0 THEN Minus(dW0, Scale(K, wd)) ELSE dW0
             dB == IF b_init # "None" THEN Scale(d, sv) ELSE Scalar(0)
             clip(v) == IF v < -wb THEN -wb ELSE IF v > wb THEN wb ELSE v
             Kc == [n |-> K.n, e |-> [m \in 1..Len(K.e) |-> clip(K.e[m])]]
         IN  [raised |-> "none", opt_params |-> op, weights |-> Kc,
              biases |-> b, dWeights |-> dW, dBiases |-> dB]

\* _evolve: the pure learning rule
_evolve(sv, wd, wb, nonneg, b_init, s, pa, delta, x, d, K, b, op) ==
    IF ~FitsKernelGradient(x, d, s, pa)
    THEN [raised |-> "ShapeMismatch"]
    ELSE LET dW0 == Scale(calc_dK_conv(x, d, delta, s, pa), sv)
             dW == IF wd > 0 THEN Minus(dW0, Scale(K, wd)) ELSE dW0
             dB == IF b_init # "None" THEN Scale(d, sv) ELSE Scalar(0)
         IN  [raised |-> "none", opt_params |-> op, weights |-> K,
              biases |-> b, dWeights |-> dW, dBiases |-> dB]

\* evolve clearing dWeights before the rule is resolved, so that a failing
\* call leaves a partial commit behind
evolve_partial_commit ==
    LET r == _evolve(sign_value, w_decay, w_bounds, is_nonnegative, bias_init,
                     stride, PadArgs(padding, stride), delta_shape, pre, post,
                     weights, biases, opt_params)
    IN  /\ last_op' = "evolve"
        /\ raised' = r.raised
        /\ IF r.raised = "none"
           THEN /\ opt_params' = r.opt_params
                /\ weights' = r.weights
                /\ biases' = r.biases
                /\ dWeights' = r.dWeights
                /\ dBiases' = r.dBiases
           ELSE /\ dWeights' = Scale(weights, 0)
                /\ UNCHANGED <<params, dBiases>>
        /\ UNCHANGED <<hyper, caches, inputs, outputs, pre, post, dInputs>>

\* evolve: resolve _evolve on the compartments, then commit its results
evolve ==
    LET r == _evolve(sign_value, w_decay, w_bounds, is_nonnegative, bias_init,
                     stride, PadArgs(padding, stride), delta_shape, pre, post,
                     weights, biases, opt_params)
    IN  /\ last_op' = "evolve"
        /\ raised' = r.raised
        /\ IF r.raised = "none"
           THEN /\ opt_params' = r.opt_params
                /\ weights' = r.weights
                /\ biases' = r.biases
                /\ dWeights' = r.dWeights
                /\ dBiases' = r.dBiases
           ELSE UNCHANGED <<params, dWeights, dBiases>>
        /\ UNCHANGED <<hyper, caches, inputs, outputs, pre, post, dInputs>>

\* the anti_padding _backtransmit hands to calc_dX_conv
anti_padding(xs, k, s, pad, d) ==
    IF pad = "SAME" THEN _conv_same_transpose_padding(d.n, xs, k, s)
    ELSE IF pad = "VALID" THEN _conv_valid_transpose_padding(d.n, xs, k, s)
    ELSE NoPad

\* _backtransmit: the pure credit-assignment rule
_backtransmit(sv, xs, k, s, pad, x_delta, x, d, K) ==
    IF ~FitsInputGradient(d, s, pad)
    THEN [raised |-> "ShapeMismatch"]
    ELSE [raised |-> "none",
          dInputs |-> Scale(calc_dX_conv(K, d, x_delta, s,
                                         anti_padding(xs, k, s, pad, d)), sv)]

\* backtransmit that also consumes (zeroes) the post trace
backtransmit_consuming_post ==
    LET r == _backtransmit(sign_value, x_size, k_size, stride, padding,
                           x_delta_shape, pre, post, weights)
    IN  /\ last_op' = "backtransmit"
        /\ raised' = r.raised
        /\ IF r.raised = "none"
           THEN dInputs' = r.dInputs /\ post' = Zeros(out_shape)
           ELSE UNCHANGED <<dInputs, post>>
        /\ UNCHANGED <<hyper, caches, params, inputs, outputs, pre,
                       dWeights, dBiases>>

\* backtransmit: resolve _backtransmit, then commit its result
backtransmit ==
    LET r == _backtransmit(sign_value, x_size, k_size, stride, padding,
                           x_delta_shape, pre, post, weights)
    IN  /\ last_op' = "backtransmit"
        /\ raised' = r.raised
        /\ IF r.raised = "none"
           THEN dInputs' = r.dInputs
           ELSE UNCHANGED dInputs
        /\ UNCHANGED <<hyper, caches, params, inputs, outputs, pre, post,
                       dWeights, dBiases>>

\* _reset returning the stored post trace instead of zeros
_reset_stale_post(ins, outs) ==
    LET preVals == Zeros(ins)
        postVals == Zeros(outs)
    IN  [inputs |-> preVals, outputs |-> postVals, pre |-> preVals,
         post |-> post, dInputs |-> preVals]

\* _reset
_reset(ins, outs) ==
    LET preVals == Zeros(ins)
        postVals == Zeros(outs)
    IN  [inputs |-> preVals, outputs |-> postVals, pre |-> preVals,
         post |-> postVals, dInputs |-> preVals]

\* reset that also re-initialises the kernel
reset_clearing_kernel ==
    LET r == _reset(in_shape, out_shape)
    IN  /\ last_op' = "reset"
        /\ raised' = "none"
        /\ inputs' = r.inputs
        /\ outputs' = r.outputs
        /\ pre' = r.pre
        /\ post' = r.post
        /\ dInputs' = r.dInputs
        /\ weights' = Scale(weights, 0)
        /\ UNCHANGED <<hyper, caches, biases, opt_params, dWeights, dBiases>>

\* reset that also drops the shape-correction caches
reset_dropping_caches ==
    LET r == _reset(in_shape, out_shape)
    IN  /\ last_op' = "reset"
        /\ raised' = "none"
        /\ inputs' = r.inputs
        /\ outputs' = r.outputs
        /\ pre' = r.pre
        /\ post' = r.post
        /\ dInputs' = r.dInputs
        /\ delta_shape' = <<0, 0>>
        /\ x_delta_shape' = <<0, 0>>
        /\ UNCHANGED <<hyper, probes, params, dWeights, dBiases>>

\* reset: resolve _reset, then commit its results
reset ==
    LET r == _reset(in_shape, out_shape)
    IN  /\ last_op' = "reset"
        /\ raised' = "none"
        /\ inputs' = r.inputs
        /\ outputs' = r.outputs
        /\ pre' = r.pre
        /\ post' = r.post
        /\ dInputs' = r.dInputs
        /\ UNCHANGED <<hyper, caches, params, dWeights, dBiases>>

\* the signals the surrounding circuit clamps into a compartment: zero or a
\* unit signal for inputs, outputs and pre; for post any amplitude up to
\* MaxVal, or a signal of a wrong shape
Signals(comp_name) ==
    LET n == IF comp_name \in {"inputs", "pre"} THEN in_shape ELSE out_shape
    IN  IF comp_name = "post"
        THEN {Const(n, v) : v \in 0..MaxVal} \cup {Zeros(x_size + 1)}
        ELSE {Const(n, v) : v \in 0..1}

\* Compartment.set from outside of the synapse
clamp(comp_name, signal) ==
    /\ last_op' = "clamp"
    /\ raised' = "none"
    /\ CASE comp_name = "inputs" ->
              inputs' = signal /\ UNCHANGED <<outputs, pre, post>>
         [] comp_name = "outputs" ->
              outputs' = signal /\ UNCHANGED <<inputs, pre, post>>
         [] comp_name = "pre" ->
              pre' = signal /\ UNCHANGED <<inputs, outputs, post>>
         [] comp_name = "post" ->
              post' = signal /\ UNCHANGED <<inputs, outputs, pre>>
    /\ UNCHANGED <<hyper, caches, params, dWeights, dBiases, dInputs>>

Clamp ==
    \E comp_name \in {"inputs", "outputs", "pre", "post"} :
        \E signal \in Signals(comp_name) : clamp(comp_name, signal)

Next == evolve \/ backtransmit \/ reset \/ Clamp

Spec == Init /\ [][Next]_vars

\* ------------------------------------------------------------------------
\* Properties
\* ------------------------------------------------------------------------
succeeded(op) == last_op = op /\ raised = "none"

\* the anti_padding the last backtransmit handed to calc_dX_conv (the call
\* leaves post, from whose shape it is derived, as it was)
antiPad == anti_padding(x_size, k_size, stride, padding, post)

\* the parameter and update lists of the documented optimizer application
opt_args_params == IF bias_init # "None" THEN <<weights, biases>> ELSE <<weights>>

\* C1: every successful evolve stores the optimizer state and the parameters
\* returned by the optimizer step on (weights[, biases]) and the fresh raw
\* gradients; with a non-zero gradient and eta # 0 the kernel changes.
C1_EvolveAppliesOptimizer ==
    [][(last_op' = "evolve" /\ raised' = "none") =>
          LET updates == IF bias_init # "None" THEN <<dWeights', dBiases'>>
                         ELSE <<dWeights'>>
              r == opt(eta, opt_params, opt_args_params, updates)
          IN  /\ opt_params' = r.opt_params
              /\ weights' = r.params[1]
              /\ bias_init # "None" => biases' = r.params[2]
              /\ (~IsZero(dWeights') /\ eta # 0) => weights' # weights]_vars

\* C2: with w_bounds > 0, after a successful evolve every kernel element lies
\* in [0, w_bounds] when is_nonnegative and in [-w_bounds, w_bounds] otherwise.
C2_KernelWithinBounds ==
    (succeeded("evolve") /\ w_bounds > 0) =>
        \A m \in 1..Len(weights.e) :
            /\ weights.e[m] <= w_bounds
            /\ weights.e[m] >= (IF is_nonnegative THEN 0 ELSE -w_bounds)

\* C3: reset leaves weights, biases, opt_params, delta_shape and
\* x_delta_shape exactly as they were.
C3_ResetKeepsParameters ==
    [][last_op' = "reset" =>
          UNCHANGED <<weights, biases, opt_params, delta_shape, x_delta_shape>>]_vars

\* a reset after the rules have written non-zero updates and credit
C3_Witness ==
    /\ last_op = "reset"
    /\ ~IsZero(dWeights)
    /\ ~IsZero(weights)
    /\ delta_shape # <<0, 0>>

\* C4 as stated: immediately after reset inputs, outputs, pre, post, dInputs,
\* dWeights and dBiases are all zero.
C4_ResetZeroesAllTransients ==
    last_op = "reset" =>
        /\ IsZero(inputs) /\ IsZero(outputs) /\ IsZero(pre) /\ IsZero(post)
        /\ IsZero(dInputs) /\ IsZero(dWeights) /\ IsZero(dBiases)

\* C4 as amended: reset stores zeros of the input shape in inputs, pre and
\* dInputs and zeros of the output shape in outputs and post; dWeights and
\* dBiases keep the values they had before the call.
C4_ResetZeroesSignals ==
    [][last_op' = "reset" =>
          /\ inputs' = Zeros(in_shape) /\ pre' = Zeros(in_shape)
          /\ dInputs' = Zeros(in_shape)
          /\ outputs' = Zeros(out_shape) /\ post' = Zeros(out_shape)
          /\ UNCHANGED <<dWeights, dBiases>>]_vars

\* a reset that left a non-zero dWeights (and dBiases) behind
C4_Witness ==
    /\ last_op = "reset"
    /\ ~IsZero(dWeights)
    /\ ~IsZero(dBiases)
    /\ IsZero(post) /\ IsZero(inputs)

\* what the same call stores in the twin synapse, equal in everything but
\* carrying -sign_value
twin_evolve ==
    _evolve(-sign_value, w_decay, w_bounds, is_nonnegative, bias_init,
            stride, PadArgs(padding, stride), delta_shape, pre, post,
            weights, biases, opt_params)

twin_backtransmit ==
    _backtransmit(-sign_value, x_size, k_size, stride, padding,
                  x_delta_shape, pre, post, weights)

\* the decay term evolve subtracts from the signed kernel update
decay_term == IF w_decay > 0 THEN Scale(weights, w_decay) ELSE Scale(weights, 0)

C6_FailureCommitsNothing ==
    [][(last_op' \in {"evolve", "backtransmit"} /\ raised' # "none") =>
          UNCHANGED <<params, caches, inputs, outputs, pre, post,
                      dWeights, dBiases, dInputs>>]_vars

\* an evolve failing on a mis-shaped trace after an earlier evolve stored a
\* non-zero update
C6_Witness ==
    /\ last_op = "evolve"
    /\ raised = "ShapeMismatch"
    /\ ~IsZero(dWeights)

\* C7: without bias_init the bias stays the scalar zero (no tensor), dBiases
\* is the scalar zero and the optimizer state has one slot, shaped as the
\* kernel.
C7_NoBias ==
    bias_init = "None" =>
        /\ biases = Scalar(0)
        /\ dBiases = Scalar(0)
        /\ Len(opt_params.slots) = 1
        /\ opt_params.slots[1] = Zeros(weights.n)

\* a bias-free synapse after an evolve on a non-zero post trace
C7_Witness ==
    /\ bias_init = "None"
    /\ succeeded("evolve")
    /\ ~IsZero(post)

\* C8: with a padding mode other than "SAME" and "VALID" evolve and
\* backtransmit fail with ConfigurationError, and backtransmit never passes
\* an undefined anti-padding to the input-gradient primitive.
C8_UnsupportedPaddingRejected ==
    /\ (padding \notin {"SAME", "VALID"} /\ last_op \in {"evolve", "backtransmit"})
           => raised = "ConfigurationError"
    /\ last_op = "backtransmit" => antiPad.defined

\* C9: the probe ran once; the caches hold what it computed at construction;
\* evolve and backtransmit, using them, produce updates of the kernel's and
\* of the input's shape.
C9_CachesFixed ==
    /\ probes = 1
    /\ delta_shape =
           _init(x_size, stride, padding, PadArgs(padding, stride), weights).delta_shape
    /\ x_delta_shape =
           _init(x_size, stride, padding, PadArgs(padding, stride), weights).x_delta_shape
    /\ succeeded("evolve") => dWeights.n = weights.n
    /\ succeeded("backtransmit") => dInputs.n = in_shape

\* a backtransmit, after an evolve and a reset, with non-zero corrections
C9_Witness ==
    /\ succeeded("backtransmit")
    /\ delta_shape # <<0, 0>>
    /\ x_delta_shape # <<0, 0>>
    /\ ~IsZero(dWeights)
    /\ IsZero(pre)

\* C10: backtransmit writes dInputs and nothing else, and only an evolve
\* step can change the kernel.
C10_BacktransmitWritesOnlyDInputs ==
    [][/\ last_op' = "backtransmit" =>
              UNCHANGED <<weights, biases, opt_params, pre, post, inputs,
                          outputs, dWeights, dBiases>>
       /\ weights' # weights => last_op' = "evolve"]_vars

\* a backtransmit that stored a non-zero credit signal next to a non-zero
\* dWeights and input
C10_Witness ==
    /\ succeeded("backtransmit")
    /\ ~IsZero(dInputs)
    /\ ~IsZero(dWeights)
    /\ ~IsZero(inputs) /\ ~IsZero(pre)

\* what evolve commits when resolved on the given compartment values
evolve_result(delta, x, d, K, b, op) ==
    _evolve(sign_value, w_decay, w_bounds, is_nonnegative, bias_init,
            stride, PadArgs(padding, stride), delta, x, d, K, b, op)

\* what backtransmit commits when resolved on the given compartment values
backtransmit_result(x_delta, x, d, K) ==
    _backtransmit(sign_value, x_size, k_size, stride, padding, x_delta, x, d, K)

====
